---- MODULE Spec2Model ----
(***************************************************************************)
(* Email verifier (package main): the concurrent domain-verification       *)
(* pipeline of main() and the per-domain check sequence of checkDomain().  *)
(*                                                                         *)
(* Go strings are modelled as sequences of one-character strings, so that  *)
(* prefix tests, suffix trimming, concatenation and byte-wise comparison   *)
(* are computed and not assumed.                                           *)
(***************************************************************************)
EXTENDS Integers, Sequences, FiniteSets, Bags, TLC

\* ------------------------------------------------------------------ bounds
MaxDomains == 2      \* longest input domain list
MaxWorkers == 2      \* largest -concurrency value
MaxTicks == 3        \* ticksFired stops counting here (the ticker goes on)
MaxMX == 2           \* most MX records in one answer
MaxTXT == 2          \* most TXT records in one answer
MaxEhlo == 2         \* most continuation lines a server sends
MaxLatency == 1      \* largest elapsed time of a probe, in ms
MaxRequests == 2     \* requests to /form, served concurrently

\* ------------------------------------------------------------------ strings
EmptyString == << >>

\* Byte values of the characters that occur in compared strings.
Ord(c) ==
    CASE c = "." -> 46
      [] c = "B" -> 66
      [] c = "a" -> 97
      [] c = "b" -> 98
      [] OTHER   -> 0

Min(a, b) == IF a <= b THEN a ELSE b

\* The Go operator < on strings: byte-wise lexicographic, a proper prefix first.
RECURSIVE StringLess(_, _)
StringLess(s, t) ==
    IF t = << >> THEN FALSE
    ELSE IF s = << >> THEN TRUE
    ELSE IF Ord(Head(s)) # Ord(Head(t)) THEN Ord(Head(s)) < Ord(Head(t))
    ELSE StringLess(Tail(s), Tail(t))

HasPrefix(s, prefix) ==
    Len(s) >= Len(prefix) /\ SubSeq(s, 1, Len(prefix)) = prefix

TrimSuffix(s, suffix) ==
    IF Len(s) >= Len(suffix) /\ SubSeq(s, Len(s) - Len(suffix) + 1, Len(s)) = suffix
    THEN SubSeq(s, 1, Len(s) - Len(suffix))
    ELSE s

\* net.JoinHostPort: host:port, the host in brackets when it holds a colon.
JoinHostPort(host, port) ==
    IF \E i \in 1..Len(host) : host[i] = ":"
    THEN <<"[">> \o host \o <<"]", ":">> \o port
    ELSE host \o <<":">> \o port

SeqsUpTo(S, n) == UNION { [1..k -> S] : k \in 0..n }

\* ------------------------------------------------------------------ inputs
DomainNames == { <<"B">>, <<"a">> }

MXHostNames == { <<"m", ".">>, <<"n">> }

SpfPrefix == <<"v", "=", "s", "p", "f", "1">>
DmarcPrefix == <<"v", "=", "D", "M", "A", "R", "C", "1">>
DmarcLabel == <<"_", "d", "m", "a", "r", "c", ".">>
SmtpPort == <<"2", "5">>

TXTRecords ==
    { SpfPrefix, SpfPrefix \o <<" ", "a">>,
      DmarcPrefix, DmarcPrefix \o <<" ", "p">>,
      <<"v", "=", "s", "p", "f">> }

\* What a resolver call returns: an error flag and the records.
MXAnswers == [err : BOOLEAN, recs : SeqsUpTo(MXHostNames, MaxMX)]
TXTAnswers ==
    [err : {FALSE}, recs : SeqsUpTo(TXTRecords, MaxTXT)]
        \cup { [err |-> TRUE, recs |-> << >>] }

\* What a dial returns: a connection, or an error of one of these kinds.
DialErrKinds == { <<"r", "e", "f", "u", "s", "e", "d">>, <<"t", "i", "m", "e", "o", "u", "t">> }
DialOK == <<"o", "k">>
DialOutcomes == {DialOK} \cup DialErrKinds

\* The error a failed dial returns and the text of its Error() method.
DialError(addr, kind) == [addr |-> addr, kind |-> kind]
ErrorText(e) == <<"d", "i", "a", "l", " ">> \o e.addr \o <<":", " ">> \o e.kind

\* ------------------------------------------------------------------ Result
ZeroResult(domain) ==
    [ Domain |-> domain, HasMX |-> FALSE, MXHosts |-> << >>,
      HasSPF |-> FALSE, SPF |-> EmptyString,
      HasDMARC |-> FALSE, DMARC |-> EmptyString,
      SMTPReach |-> FALSE, LatencyMs |-> 0, Error |-> EmptyString ]

\* ------------------------------------------------------------------ checkDomain
\* Mutant: a failed MX lookup is reported in Error.
MXBlock_ReportsFailure(r, ans) ==
    IF ~ans.err /\ Len(ans.recs) > 0
    THEN [r EXCEPT !.HasMX = TRUE,
                   !.MXHosts = r.MXHosts \o
                       [i \in 1..Len(ans.recs) |-> TrimSuffix(ans.recs[i], <<".">>)]]
    ELSE IF ans.err THEN [r EXCEPT !.Error = <<"l", "o", "o", "k", "u", "p">>]
    ELSE r

\* Mutant: the answer is not tested for being empty.
MXBlock_NoLenTest(r, ans) ==
    IF ~ans.err
    THEN [r EXCEPT !.HasMX = TRUE,
                   !.MXHosts = r.MXHosts \o
                       [i \in 1..Len(ans.recs) |-> TrimSuffix(ans.recs[i], <<".">>)]]
    ELSE r

\* The MX block: on a clean, non-empty answer every host is appended with a
\* trailing dot trimmed.
MXBlock(r, ans) ==
    IF ~ans.err /\ Len(ans.recs) > 0
    THEN [r EXCEPT !.HasMX = TRUE,
                   !.MXHosts = r.MXHosts \o
                       [i \in 1..Len(ans.recs) |-> TrimSuffix(ans.recs[i], <<".">>)]]
    ELSE r

\* Index of the first record with the prefix, 0 when there is none.
RECURSIVE FirstWithPrefix(_, _, _)
FirstWithPrefix(recs, prefix, i) ==
    IF i > Len(recs) THEN 0
    ELSE IF HasPrefix(recs[i], prefix) THEN i
    ELSE FirstWithPrefix(recs, prefix, i + 1)

\* Mutant: the scan has no break, so the last match is the one kept.
SPFBlock_NoBreak(r, ans) ==
    LET hits == { i \in 1..Len(ans.recs) : HasPrefix(ans.recs[i], SpfPrefix) }
        last == CHOOSE i \in hits : \A j \in hits : j <= i
    IN  IF ~ans.err /\ hits # {}
        THEN [r EXCEPT !.HasSPF = TRUE, !.SPF = ans.recs[last]]
        ELSE r

SPFBlock(r, ans) ==
    LET i == FirstWithPrefix(ans.recs, SpfPrefix, 1) IN
    IF ~ans.err /\ i > 0
    THEN [r EXCEPT !.HasSPF = TRUE, !.SPF = ans.recs[i]]
    ELSE r

DMARCBlock(r, ans) ==
    LET i == FirstWithPrefix(ans.recs, DmarcPrefix, 1) IN
    IF ~ans.err /\ i > 0
    THEN [r EXCEPT !.HasDMARC = TRUE, !.DMARC = ans.recs[i]]
    ELSE r

\* Mutant: the domain itself is probed after the MX hosts.
ProbeTargets_DomainLast(r, domain) == r.MXHosts \o <<domain>>

\* The probe list: the MX hosts, or the domain itself when there are none.
ProbeTargets(r, domain) ==
    IF Len(r.MXHosts) = 0 THEN <<domain>> ELSE r.MXHosts

\* lastErr is << >> for nil and <<e>> for the error e.
NilErr == << >>

\* A connected target ends the loop: reachable, latency taken, lastErr cleared.
ProbeSucceeded(r, elapsed) ==
    [r EXCEPT !.SMTPReach = TRUE, !.LatencyMs = elapsed]

\* After the loop: the text of lastErr, when there is one, goes to Error.
AfterLoop(r, lastErr) ==
    IF lastErr # NilErr THEN [r EXCEPT !.Error = ErrorText(lastErr[1])] ELSE r

\* A failed dial: the error is kept in lastErr and the loop goes on.
DialFailed(h, kind) == <<DialError(JoinHostPort(h, SmtpPort), kind)>>

\* The SMTP loop over targets from index i on, dials[i] the outcome of the dial
\* to targets[i]: the first target that connects ends the loop.
RECURSIVE ProbeLoop(_, _, _, _, _, _)
ProbeLoop(r, targets, i, lastErr, dials, elapsed) ==
    IF i > Len(targets) THEN AfterLoop(r, lastErr)
    ELSE IF dials[i] = DialOK THEN AfterLoop(ProbeSucceeded(r, elapsed), NilErr)
    ELSE ProbeLoop(r, targets, i + 1, DialFailed(targets[i], dials[i]), dials, elapsed)

\* checkDomain as one call, env the answers of the network during the call.
checkDomain(domain, smtp, env) ==
    LET r == DMARCBlock(SPFBlock(MXBlock(ZeroResult(domain), env.mx), env.txt), env.dmarc)
    IN  IF smtp
        THEN ProbeLoop(r, ProbeTargets(r, domain), 1, NilErr, env.dials, env.elapsed)
        ELSE r

\* The network environments a call made by a pipeline worker may meet.
NoAnswer == [err |-> TRUE, recs |-> << >>]
NetEnvs ==
    { [ mx |-> NoAnswer, txt |-> NoAnswer, dmarc |-> NoAnswer,
        dials |-> <<DialOK>>, elapsed |-> MaxLatency ],
      [ mx |-> [err |-> FALSE, recs |-> << <<"m", ".">>, <<"n">> >>],
        txt |-> [err |-> FALSE, recs |-> <<SpfPrefix>>],
        dmarc |-> [err |-> FALSE, recs |-> <<DmarcPrefix>>],
        dials |-> << <<"r", "e", "f", "u", "s", "e", "d">>,
                     <<"t", "i", "m", "e", "o", "u", "t">> >>,
        elapsed |-> 0 ] }

\* ------------------------------------------------------------------ sort.Slice
\* Mutant: the comparison the wrong way round.
less_Reversed(x, y) == StringLess(y.Domain, x.Domain)

\* The less function of the call: collected[i].Domain < collected[j].Domain.
\* For at most 12 elements sort.Slice is an insertion sort on it.
less(x, y) == StringLess(x.Domain, y.Domain)

Swap(s, i, j) == [s EXCEPT ![i] = s[j], ![j] = s[i]]

RECURSIVE InsertLeft(_, _)
InsertLeft(s, j) ==
    IF j > 1 /\ less(s[j], s[j - 1]) THEN InsertLeft(Swap(s, j, j - 1), j - 1) ELSE s

RECURSIVE InsertionSort(_, _)
InsertionSort(s, i) ==
    IF i > Len(s) THEN s ELSE InsertionSort(InsertLeft(s, i), i + 1)

SortSlice(s) == InsertionSort(s, 2)

\* ------------------------------------------------------------------ state
VARIABLES
    \* main(): flags and input
    domains, concurrency, rate, smtpCheck,
    \* main(): channels, wait group, ticker
    jobsClosed, resultsClosed, doneClosed, wg, tickC,
    \* goroutines
    mpc, dpc, next, workers, cpc, cres, collected, bar, out,
    \* observers of the pipeline: the clock within the ticker interval, the ticks
    \* fired, the clock steps since the last admission (at most TickUnits), the
    \* calls of checkDomain per input position, collected as it was before the sort
    phase, ticksFired, sinceAdmit, checked, arrival,
    \* one call of checkDomain, step by step: its arguments and locals (ti: the
    \* index of h in targets), and what it did on the network: asked and ans the
    \* name and the answer of the lookup just made (none once the dials begin),
    \* dialed the dials made with what each returned, conn the connection,
    \* wire the commands written, nread the reads of the EHLO response
    cdpc, domain, smtp, res, asked, ans, targets, ti, lastErr, dialed, conn, wire, nread,
    \* greeting what the read of the greeting returned, lastRead what the
    \* latest read of the EHLO response returned
    greeting, lastRead

pipevars ==
    << domains, concurrency, rate, smtpCheck, jobsClosed, resultsClosed, doneClosed, wg,
       tickC, mpc, dpc, next, workers, cpc, cres, collected, bar, out,
       phase, ticksFired, sinceAdmit, checked, arrival >>

cdvars ==
    << cdpc, domain, smtp, res, asked, ans, targets, ti, lastErr, dialed, conn, wire, nread,
       greeting, lastRead >>

\* The form web server: the content of submissions.txt and whether the file
\* exists, and the requests to /form, each served by a goroutine of its own.
VARIABLES file, fileExists, reqs

webvars == << file, fileExists, reqs >>

vars == << pipevars, cdvars, webvars >>

\* The web server is not running.
WebIdle == file = EmptyString /\ fileExists = FALSE /\ reqs = << >>

\* Model time: TickUnits steps of the clock make one ticker interval.
TickUnits == 2

total == Len(domains)
\* No read has been made on a connection.
NoRead == << "none" >>
NoResult == ZeroResult(EmptyString)

\* The worker goroutines are anonymous closures: the pool is the bag of their
\* states, each a position in the loop body, the d it holds (pos: the index in
\* domains that d came from) and the r it computed.
IdleWorker == [pc |-> "recv", d |-> EmptyString, pos |-> 0, r |-> NoResult]
ExitedWorker == [IdleWorker EXCEPT !.pc = "exited"]
WorkerStates == BagToSet(workers)
Step(w, w2) == (workers (-) SetToBag({w})) (+) SetToBag({w2})
NumWorkers(pcs) ==
    BagCardinality([w \in { x \in WorkerStates : x.pc \in pcs } |-> workers[w]])

\* ------------------------------------------------------------------ pipeline
\* No call of checkDomain is being followed step by step.
CDIdle ==
    /\ cdpc = "idle" /\ domain = EmptyString /\ smtp = FALSE
    /\ res = NoResult /\ asked = EmptyString /\ ans = NoAnswer
    /\ targets = << >> /\ ti = 0 /\ lastErr = NilErr
    /\ dialed = << >> /\ conn = "none" /\ wire = << >> /\ nread = 0
    /\ greeting = NoRead /\ lastRead = NoRead

\* Mutant: wg.Add(1) is left out, so the counter starts at zero.
PipeInit_NoAdd ==
    /\ domains \in SeqsUpTo(DomainNames, MaxDomains) \ { << >> }
    /\ concurrency \in -1..MaxWorkers
    /\ rate \in {0, 1}
    /\ smtpCheck \in BOOLEAN
    /\ jobsClosed = FALSE /\ resultsClosed = FALSE /\ doneClosed = FALSE
    /\ workers = [w \in { x \in {IdleWorker} : concurrency > 0 } |-> concurrency]
    /\ wg = 0
    /\ tickC = 0
    /\ mpc = "wait" /\ dpc = "range" /\ next = 1
    /\ cpc = "recv" /\ cres = NoResult /\ collected = << >> /\ bar = 0
    /\ out = << >>
    /\ phase = 0 /\ ticksFired = 0 /\ sinceAdmit = TickUnits
    /\ checked = [i \in 1..total |-> 0]
    /\ arrival = << >>

\* Mutant: a worker count below one is raised to one.
PipeInit_AtLeastOne ==
    /\ domains \in SeqsUpTo(DomainNames, MaxDomains) \ { << >> }
    /\ concurrency \in -1..MaxWorkers
    /\ rate \in {0, 1}
    /\ smtpCheck \in BOOLEAN
    /\ jobsClosed = FALSE /\ resultsClosed = FALSE /\ doneClosed = FALSE
    /\ workers = [w \in {IdleWorker} |-> IF concurrency > 0 THEN concurrency ELSE 1]
    /\ wg = BagCardinality(workers)
    /\ tickC = 0
    /\ mpc = "wait" /\ dpc = "range" /\ next = 1
    /\ cpc = "recv" /\ cres = NoResult /\ collected = << >> /\ bar = 0
    /\ out = << >>
    /\ phase = 0 /\ ticksFired = 0 /\ sinceAdmit = TickUnits
    /\ checked = [i \in 1..total |-> 0]
    /\ arrival = << >>

\* main() at wg.Wait(): flags parsed, a non-empty domain list read, channels
\* made, the ticker created when rate > 0, every goroutine started (the loop
\* "for i := 0; i < *concurrency; i++" starts none when concurrency <= 0).
PipeInit ==
    /\ domains \in SeqsUpTo(DomainNames, MaxDomains) \ { << >> }
    /\ concurrency \in -1..MaxWorkers
    /\ rate \in {0, 1}
    /\ smtpCheck \in BOOLEAN
    /\ jobsClosed = FALSE /\ resultsClosed = FALSE /\ doneClosed = FALSE
    /\ workers = [w \in { x \in {IdleWorker} : concurrency > 0 } |-> concurrency]
    /\ wg = BagCardinality(workers)
    /\ tickC = 0
    /\ mpc = "wait" /\ dpc = "range" /\ next = 1
    /\ cpc = "recv" /\ cres = NoResult /\ collected = << >> /\ bar = 0
    /\ out = << >>
    /\ phase = 0 /\ ticksFired = 0 /\ sinceAdmit = TickUnits
    /\ checked = [i \in 1..total |-> 0]
    /\ arrival = << >>

Init == PipeInit /\ CDIdle /\ WebIdle

\* The runtime clock advances; at every full interval the ticker sends on its
\* channel of capacity 1 without blocking, dropping the tick when it is full.
\* The ticker is stopped when main returns.
ClockAdvance ==
    /\ rate > 0 /\ mpc # "returned"
    /\ phase' = (phase + 1) % TickUnits
    /\ sinceAdmit' = Min(sinceAdmit + 1, TickUnits)
    /\ IF phase' = 0
       THEN /\ tickC' = 1
            /\ ticksFired' = Min(ticksFired + 1, MaxTicks)
       ELSE UNCHANGED << tickC, ticksFired >>
    /\ UNCHANGED << domains, concurrency, rate, smtpCheck, jobsClosed, resultsClosed,
                    doneClosed, wg, mpc, dpc, next, workers, cpc, cres,
                    collected, bar, out, checked, arrival, cdvars, webvars >>

\* Mutant: the worker starts a goroutine for each domain it receives and goes
\* back to the head of its loop.
WorkerRecv_Spawn(w) ==
    /\ dpc = "range" /\ next <= total
    /\ w.pc = "recv"
    /\ workers' = workers (+) SetToBag({[w EXCEPT !.d = domains[next], !.pos = next,
                                                  !.pc = IF rate > 0 THEN "tick" ELSE "check"]})
    /\ next' = next + 1
    /\ UNCHANGED << domains, concurrency, rate, smtpCheck, jobsClosed, resultsClosed,
                    doneClosed, wg, tickC, mpc, dpc, cpc, cres, collected, bar,
                    out, phase, ticksFired, sinceAdmit, checked, arrival, cdvars, webvars >>

\* jobs <- d meets a worker's receive in "for d := range jobs"; the worker
\* goes on to wait for a tick when there is a ticker.
WorkerRecv(w) ==
    /\ dpc = "range" /\ next <= total
    /\ w.pc = "recv"
    /\ workers' = Step(w, [w EXCEPT !.d = domains[next], !.pos = next,
                                    !.pc = IF rate > 0 THEN "tick" ELSE "check"])
    /\ next' = next + 1
    /\ UNCHANGED << domains, concurrency, rate, smtpCheck, jobsClosed, resultsClosed,
                    doneClosed, wg, tickC, mpc, dpc, cpc, cres, collected, bar,
                    out, phase, ticksFired, sinceAdmit, checked, arrival, cdvars, webvars >>

\* Mutant: the dispatcher returns without close(jobs).
DispatcherClose_Forgotten ==
    /\ dpc = "range" /\ next > total
    /\ dpc' = "exited"
    /\ UNCHANGED << domains, concurrency, rate, smtpCheck, jobsClosed, resultsClosed,
                    doneClosed, wg, tickC, mpc, next, workers, cpc, cres, collected, bar,
                    out, phase, ticksFired, sinceAdmit, checked, arrival, cdvars, webvars >>

\* The dispatcher's loop is over: close(jobs).
DispatcherClose ==
    /\ dpc = "range" /\ next > total
    /\ jobsClosed' = TRUE
    /\ dpc' = "exited"
    /\ UNCHANGED << domains, concurrency, rate, smtpCheck, resultsClosed, doneClosed, wg,
                    tickC, mpc, next, workers, cpc, cres, collected, bar, out,
                    phase, ticksFired, sinceAdmit, checked, arrival, cdvars, webvars >>

\* range jobs on the closed channel ends the worker: deferred wg.Done().
WorkerExit(w) ==
    /\ w.pc = "recv" /\ jobsClosed
    /\ workers' = Step(w, ExitedWorker)
    /\ wg' = wg - 1
    /\ UNCHANGED << domains, concurrency, rate, smtpCheck, jobsClosed, resultsClosed,
                    doneClosed, tickC, mpc, dpc, next, cpc, cres, collected,
                    bar, out, phase, ticksFired, sinceAdmit, checked, arrival, cdvars, webvars >>

\* Mutant: a non-blocking receive, the worker goes on when no tick is waiting.
WorkerTick_NoWait(w) ==
    /\ w.pc = "tick"
    /\ tickC' = 0
    /\ sinceAdmit' = 0
    /\ workers' = Step(w, [w EXCEPT !.pc = "check"])
    /\ UNCHANGED << domains, concurrency, rate, smtpCheck, jobsClosed, resultsClosed,
                    doneClosed, wg, mpc, dpc, next, cpc, cres, collected,
                    bar, out, phase, ticksFired, checked, arrival, cdvars, webvars >>

\* <-tick : the worker takes the tick waiting in the ticker's channel.
WorkerTick(w) ==
    /\ w.pc = "tick" /\ tickC > 0
    /\ tickC' = tickC - 1
    /\ sinceAdmit' = 0
    /\ workers' = Step(w, [w EXCEPT !.pc = "check"])
    /\ UNCHANGED << domains, concurrency, rate, smtpCheck, jobsClosed, resultsClosed,
                    doneClosed, wg, mpc, dpc, next, cpc, cres, collected,
                    bar, out, phase, ticksFired, checked, arrival, cdvars, webvars >>

\* Mutant: the call is made a second time (a retry) before the result is sent.
WorkerCheck_Retry(w) ==
    /\ w.pc = "check"
    /\ \E env \in NetEnvs :
           workers' = Step(w, [w EXCEPT !.r = checkDomain(w.d, smtpCheck, env),
                                        !.pc = "send"])
    /\ checked' = [checked EXCEPT ![w.pos] = @ + 2]
    /\ UNCHANGED << domains, concurrency, rate, smtpCheck, jobsClosed, resultsClosed,
                    doneClosed, wg, tickC, mpc, dpc, next, cpc, cres, collected,
                    bar, out, phase, ticksFired, sinceAdmit, arrival, cdvars, webvars >>

\* r := checkDomain(d, *smtpCheck)
WorkerCheck(w) ==
    /\ w.pc = "check"
    /\ \E env \in NetEnvs :
           workers' = Step(w, [w EXCEPT !.r = checkDomain(w.d, smtpCheck, env),
                                        !.pc = "send"])
    /\ checked' = [checked EXCEPT ![w.pos] = @ + 1]
    /\ UNCHANGED << domains, concurrency, rate, smtpCheck, jobsClosed, resultsClosed,
                    doneClosed, wg, tickC, mpc, dpc, next, cpc, cres, collected,
                    bar, out, phase, ticksFired, sinceAdmit, arrival, cdvars, webvars >>

\* results <- r meets the collector's receive in "for res := range results";
\* the worker is back at the head of its loop.
WorkerSend(w) ==
    /\ w.pc = "send"
    /\ cpc = "recv" /\ ~resultsClosed
    /\ cres' = w.r
    /\ cpc' = "append"
    /\ workers' = Step(w, IdleWorker)
    /\ UNCHANGED << domains, concurrency, rate, smtpCheck, jobsClosed, resultsClosed,
                    doneClosed, wg, tickC, mpc, dpc, next, collected, bar, out, phase,
                    ticksFired, sinceAdmit, checked, arrival, cdvars, webvars >>

\* outMu.Lock(); collected = append(collected, res); outMu.Unlock()
\* (only the collector ever takes outMu, so the lock never waits).
CollectorAppend ==
    /\ cpc = "append"
    /\ collected' = Append(collected, cres)
    /\ cres' = NoResult
    /\ cpc' = "bar"
    /\ UNCHANGED << domains, concurrency, rate, smtpCheck, jobsClosed, resultsClosed,
                    doneClosed, wg, tickC, mpc, dpc, next, workers, bar, out,
                    phase, ticksFired, sinceAdmit, checked, arrival, cdvars, webvars >>

\* _ = bar.Add(1)
CollectorBar ==
    /\ cpc = "bar"
    /\ bar' = bar + 1
    /\ cpc' = "recv"
    /\ UNCHANGED << domains, concurrency, rate, smtpCheck, jobsClosed, resultsClosed,
                    doneClosed, wg, tickC, mpc, dpc, next, workers, cres,
                    collected, out, phase, ticksFired, sinceAdmit, checked, arrival, cdvars, webvars >>

\* range results on the closed channel ends the collector: close(done).
CollectorExit ==
    /\ cpc = "recv" /\ resultsClosed
    /\ doneClosed' = TRUE
    /\ cpc' = "exited"
    /\ UNCHANGED << domains, concurrency, rate, smtpCheck, jobsClosed, resultsClosed, wg,
                    tickC, mpc, dpc, next, workers, cres, collected, bar, out,
                    phase, ticksFired, sinceAdmit, checked, arrival, cdvars, webvars >>

\* Mutant: main does not wait for the workers.
MainWait_NoWait ==
    /\ mpc = "wait"
    /\ mpc' = "close"
    /\ UNCHANGED << domains, concurrency, rate, smtpCheck, jobsClosed, resultsClosed,
                    doneClosed, wg, tickC, dpc, next, workers, cpc, cres,
                    collected, bar, out, phase, ticksFired, sinceAdmit, checked,
                    arrival, cdvars, webvars >>

\* wg.Wait() returns when the counter is zero.
MainWait ==
    /\ mpc = "wait" /\ wg = 0
    /\ mpc' = "close"
    /\ UNCHANGED << domains, concurrency, rate, smtpCheck, jobsClosed, resultsClosed,
                    doneClosed, wg, tickC, dpc, next, workers, cpc, cres,
                    collected, bar, out, phase, ticksFired, sinceAdmit, checked, arrival, cdvars, webvars >>

\* close(results)
MainClose ==
    /\ mpc = "close"
    /\ resultsClosed' = TRUE
    /\ mpc' = "done"
    /\ UNCHANGED << domains, concurrency, rate, smtpCheck, jobsClosed, doneClosed, wg,
                    tickC, dpc, next, workers, cpc, cres, collected, bar, out,
                    phase, ticksFired, sinceAdmit, checked, arrival, cdvars, webvars >>

\* Mutant: main does not wait for done.
MainDone_NoWait ==
    /\ mpc = "done"
    /\ mpc' = "sort"
    /\ UNCHANGED << domains, concurrency, rate, smtpCheck, jobsClosed, resultsClosed,
                    doneClosed, wg, tickC, dpc, next, workers, cpc, cres,
                    collected, bar, out, phase, ticksFired, sinceAdmit, checked,
                    arrival, cdvars, webvars >>

\* <-done
MainDone ==
    /\ mpc = "done" /\ doneClosed
    /\ mpc' = "sort"
    /\ UNCHANGED << domains, concurrency, rate, smtpCheck, jobsClosed, resultsClosed,
                    doneClosed, wg, tickC, dpc, next, workers, cpc, cres,
                    collected, bar, out, phase, ticksFired, sinceAdmit, checked, arrival, cdvars, webvars >>

\* sort.Slice(collected, ...)
MainSort ==
    /\ mpc = "sort"
    /\ arrival' = collected
    /\ collected' = SortSlice(collected)
    /\ mpc' = "emit"
    /\ UNCHANGED << domains, concurrency, rate, smtpCheck, jobsClosed, resultsClosed,
                    doneClosed, wg, tickC, dpc, next, workers, cpc, cres, bar,
                    out, phase, ticksFired, sinceAdmit, checked, cdvars, webvars >>

\* The switch on the format: collected goes to one encoder, then main returns.
MainEmit ==
    /\ mpc = "emit"
    /\ out' = collected
    /\ mpc' = "returned"
    /\ UNCHANGED << domains, concurrency, rate, smtpCheck, jobsClosed, resultsClosed,
                    doneClosed, wg, tickC, dpc, next, workers, cpc, cres,
                    collected, bar, phase, ticksFired, sinceAdmit, checked, arrival, cdvars, webvars >>

Next ==
    \/ ClockAdvance
    \/ \E w \in WorkerStates : WorkerRecv(w)
    \/ DispatcherClose
    \/ \E w \in WorkerStates : WorkerExit(w)
    \/ \E w \in WorkerStates : WorkerTick(w)
    \/ \E w \in WorkerStates : WorkerCheck(w)
    \/ \E w \in WorkerStates : WorkerSend(w)
    \/ CollectorAppend
    \/ CollectorBar
    \/ CollectorExit
    \/ MainWait
    \/ MainClose
    \/ MainDone
    \/ MainSort
    \/ MainEmit

Spec == Init /\ [][Next]_vars

\* ------------------------------------------------------------------ checkDomain, step by step
\* The pipeline is not running.
PipeIdle ==
    /\ domains = << >> /\ concurrency = 0 /\ rate = 0 /\ smtpCheck = FALSE
    /\ jobsClosed = FALSE /\ resultsClosed = FALSE /\ doneClosed = FALSE
    /\ workers = EmptyBag /\ wg = 0 /\ tickC = 0
    /\ mpc = "idle" /\ dpc = "idle" /\ next = 1
    /\ cpc = "idle" /\ cres = NoResult /\ collected = << >> /\ bar = 0 /\ out = << >>
    /\ phase = 0 /\ ticksFired = 0 /\ sinceAdmit = TickUnits
    /\ checked = << >>
    /\ arrival = << >>

\* checkDomain(domain, smtpCheck) entered: res := Result{Domain: domain}.
CDInit ==
    /\ domain \in DomainNames \cup { <<"a", "b">> }
    /\ smtp \in BOOLEAN
    /\ cdpc = "mx"
    /\ res = ZeroResult(domain)
    /\ asked = EmptyString /\ ans = NoAnswer
    /\ targets = << >> /\ ti = 0 /\ lastErr = NilErr
    /\ dialed = << >> /\ conn = "none" /\ wire = << >> /\ nread = 0
    /\ greeting = NoRead /\ lastRead = NoRead

InitCD == PipeIdle /\ CDInit /\ WebIdle

\* The lines a server may send: a continuation line, a last line, a short line.
ContLine == <<"2", "5", "0", "-", "x">>
LastLine == <<"2", "5", "0", " ", "x">>
ShortLine == <<"o", "k">>
ReadErr == << >>
ReadOutcomes == { ReadErr, ContLine, LastLine, ShortLine }

\* mxRecords, err := net.LookupMX(domain) and the block that follows.
LookupMX ==
    /\ cdpc = "mx"
    /\ \E a \in MXAnswers :
        /\ ans' = a
        /\ res' = MXBlock(res, a)
    /\ asked' = domain
    /\ cdpc' = "spf"
    /\ UNCHANGED << domain, smtp, targets, ti, lastErr, dialed, conn, wire,
                    nread, greeting, lastRead, pipevars, webvars >>

\* txtRecords, err := net.LookupTXT(domain) and the scan for the SPF record.
LookupSPF ==
    /\ cdpc = "spf"
    /\ \E a \in TXTAnswers :
        /\ ans' = a
        /\ res' = SPFBlock(res, a)
    /\ asked' = domain
    /\ cdpc' = "dmarc"
    /\ UNCHANGED << domain, smtp, targets, ti, lastErr, dialed, conn, wire,
                    nread, greeting, lastRead, pipevars, webvars >>

\* Mutant: the probe is set up whatever smtpCheck says.
LookupDMARC_AlwaysProbe ==
    /\ cdpc = "dmarc"
    /\ \E a \in TXTAnswers :
        /\ ans' = a
        /\ res' = DMARCBlock(res, a)
    /\ asked' = DmarcLabel \o domain
    /\ targets' = ProbeTargets(res', domain)
    /\ ti' = 1
    /\ lastErr' = NilErr
    /\ cdpc' = "dial"
    /\ UNCHANGED << domain, smtp, dialed, conn, wire, nread, greeting, lastRead, pipevars, webvars >>

\* net.LookupTXT("_dmarc." + domain) and the scan for the DMARC record; then
\* "if smtpCheck": the probe list is set up, or the function returns res.
LookupDMARC ==
    /\ cdpc = "dmarc"
    /\ \E a \in TXTAnswers :
        /\ ans' = a
        /\ res' = DMARCBlock(res, a)
    /\ asked' = DmarcLabel \o domain
    /\ IF smtp
       THEN /\ targets' = ProbeTargets(res', domain)
            /\ ti' = 1
            /\ lastErr' = NilErr
            /\ cdpc' = "dial"
       ELSE /\ cdpc' = "return"
            /\ UNCHANGED << targets, ti, lastErr >>
    /\ UNCHANGED << domain, smtp, dialed, conn, wire, nread, greeting, lastRead, pipevars, webvars >>

\* Mutant: only the first error is kept.
Dial_KeepFirstErr ==
    /\ cdpc = "dial" /\ ti <= Len(targets)
    /\ \E o \in DialOutcomes :
        /\ dialed' = Append(dialed, [addr |-> JoinHostPort(targets[ti], SmtpPort), got |-> o])
        /\ IF o = DialOK
           THEN /\ conn' = "open"
                /\ cdpc' = "greet"
                /\ UNCHANGED << lastErr, ti >>
           ELSE /\ lastErr' = IF lastErr = NilErr THEN DialFailed(targets[ti], o) ELSE lastErr
                /\ ti' = ti + 1
                /\ UNCHANGED << conn, cdpc >>
    /\ asked' = EmptyString /\ ans' = NoAnswer
    /\ UNCHANGED << domain, smtp, res, targets, wire, nread, greeting, lastRead, pipevars, webvars >>

\* One pass of "for _, h := range targets" up to the dial: on an error it is
\* kept in lastErr and the loop continues; else the connection is open.
Dial ==
    /\ cdpc = "dial" /\ ti <= Len(targets)
    /\ \E o \in DialOutcomes :
        /\ dialed' = Append(dialed, [addr |-> JoinHostPort(targets[ti], SmtpPort), got |-> o])
        /\ IF o = DialOK
           THEN /\ conn' = "open"
                /\ cdpc' = "greet"
                /\ UNCHANGED << lastErr, ti >>
           ELSE /\ lastErr' = DialFailed(targets[ti], o)
                /\ ti' = ti + 1
                /\ UNCHANGED << conn, cdpc >>
    /\ asked' = EmptyString /\ ans' = NoAnswer
    /\ UNCHANGED << domain, smtp, res, targets, wire, nread, greeting, lastRead, pipevars, webvars >>

\* Mutant: a greeting that cannot be read fails the target like a failed dial.
Greet_ChecksGreeting ==
    /\ cdpc = "greet"
    /\ \E line \in ReadOutcomes :
        /\ greeting' = line
        /\ IF line = ReadErr
           THEN /\ conn' = "closed"
                /\ lastErr' = DialFailed(targets[ti], <<"t", "i", "m", "e", "o", "u", "t">>)
                /\ ti' = ti + 1
                /\ cdpc' = "dial"
                /\ UNCHANGED << wire, nread >>
           ELSE /\ wire' = Append(wire, "EHLO")
                /\ nread' = 0
                /\ cdpc' = "ehlo"
                /\ UNCHANGED << conn, lastErr, ti >>
    /\ UNCHANGED << domain, smtp, res, asked, ans, targets, dialed, lastRead, pipevars, webvars >>

\* The greeting is read and dropped, whatever the read returns; EHLO is sent.
Greet ==
    /\ cdpc = "greet"
    /\ \E line \in ReadOutcomes : greeting' = line
    /\ wire' = Append(wire, "EHLO")
    /\ nread' = 0
    /\ cdpc' = "ehlo"
    /\ UNCHANGED << domain, smtp, res, asked, ans, targets, ti, lastErr, dialed, conn,
                    lastRead, pipevars, webvars >>

\* One read of the EHLO response: the loop ends on a read error, on a line
\* shorter than 4 characters or on one whose fourth character is not '-'.
ReadEhlo ==
    /\ cdpc = "ehlo"
    /\ \E line \in ReadOutcomes :
        /\ line = ContLine => nread < MaxEhlo
        /\ cdpc' = IF line = ReadErr \/ Len(line) < 4 \/ line[4] # "-"
                   THEN "quit" ELSE "ehlo"
        /\ lastRead' = line
    /\ nread' = nread + 1
    /\ UNCHANGED << domain, smtp, res, asked, ans, targets, ti, lastErr, dialed, conn, wire,
                    greeting, pipevars, webvars >>

\* Mutant: lastErr is not cleared on success.
Quit_KeepLastErr ==
    /\ cdpc = "quit"
    /\ wire' = Append(wire, "QUIT")
    /\ conn' = "closed"
    /\ \E elapsed \in 0..MaxLatency : res' = ProbeSucceeded(res, elapsed)
    /\ cdpc' = "after"
    /\ UNCHANGED << domain, smtp, asked, ans, targets, ti, lastErr, dialed, nread, greeting, lastRead, pipevars, webvars >>

\* QUIT is sent, the connection closed, the result taken, lastErr cleared: break.
Quit ==
    /\ cdpc = "quit"
    /\ wire' = Append(wire, "QUIT")
    /\ conn' = "closed"
    /\ \E elapsed \in 0..MaxLatency : res' = ProbeSucceeded(res, elapsed)
    /\ lastErr' = NilErr
    /\ cdpc' = "after"
    /\ UNCHANGED << domain, smtp, asked, ans, targets, ti, dialed, nread, greeting, lastRead, pipevars, webvars >>

\* The range is exhausted.
LoopEnd ==
    /\ cdpc = "dial" /\ ti > Len(targets)
    /\ cdpc' = "after"
    /\ UNCHANGED << domain, smtp, res, asked, ans, targets, ti, lastErr, dialed, conn, wire,
                    nread, greeting, lastRead, pipevars, webvars >>

\* "if lastErr != nil { res.Error = lastErr.Error() }" and return res.
Return ==
    /\ cdpc = "after"
    /\ res' = AfterLoop(res, lastErr)
    /\ cdpc' = "return"
    /\ UNCHANGED << domain, smtp, asked, ans, targets, ti, lastErr, dialed, conn, wire,
                    nread, greeting, lastRead, pipevars, webvars >>

NextCD ==
    \/ LookupMX
    \/ LookupSPF
    \/ LookupDMARC
    \/ Dial
    \/ Greet
    \/ ReadEhlo
    \/ Quit
    \/ LoopEnd
    \/ Return

SpecCD == InitCD /\ [][NextCD]_vars

\* ------------------------------------------------------------------ the form web server
\* What a request to /form may carry.
Methods == { "GET", "POST", "PUT" }
FormNames == { <<"n">> }
FormEmails == { <<"e">> }
FormPayloads == { <<"p">>, <<"p", "\n", "q">> }
\* time.Now().Format(time.RFC3339): digits, '-', ':', 'T', 'Z' or an offset.
Timestamps == { <<"T", "1">>, <<"T", "2">> }

\* fmt.Sprintf("%s\t%s\t%s\t%s\n", ...): the four strings, tabs between, a newline.
Sprintf(ts, name, email, payload) ==
    ts \o <<"\t">> \o name \o <<"\t">> \o email \o <<"\t">> \o payload \o <<"\n">>

\* A line an earlier run left in the file.
EarlierLine == Sprintf(<<"T", "0">>, <<"n">>, <<"e">>, <<"o">>)

NewRequest ==
    [pc |-> "new", method |-> "", name |-> EmptyString, email |-> EmptyString,
     payload |-> EmptyString, line |-> EmptyString, status |-> "", location |-> ""]

\* The server is up, the requests have not come in yet.
WebInit ==
    /\ fileExists \in BOOLEAN
    /\ file \in IF fileExists THEN { EmptyString, EarlierLine } ELSE { EmptyString }
    /\ reqs = [i \in 1..MaxRequests |-> NewRequest]

InitWeb == PipeIdle /\ CDIdle /\ WebInit

\* A request written with its response and over.
Respond(i, status, location) ==
    reqs' = [reqs EXCEPT ![i].pc = "done", ![i].status = status, ![i].location = location]

\* net/http calls formHandler in the goroutine of the request's connection.
Receive(i) ==
    /\ reqs[i].pc = "new"
    /\ \E m \in Methods :
        reqs' = [reqs EXCEPT ![i].pc = "switch", ![i].method = m]
    /\ UNCHANGED << file, fileExists, pipevars, cdvars >>

\* case http.MethodGet: the form page is served.
ServeForm(i) ==
    /\ reqs[i].pc = "switch" /\ reqs[i].method = "GET"
    /\ Respond(i, "StatusOK", "")
    /\ UNCHANGED << file, fileExists, pipevars, cdvars >>

\* default: 405.
MethodNotAllowed(i) ==
    /\ reqs[i].pc = "switch" /\ reqs[i].method \notin { "GET", "POST" }
    /\ Respond(i, "StatusMethodNotAllowed", "")
    /\ UNCHANGED << file, fileExists, pipevars, cdvars >>

\* case http.MethodPost: r.ParseForm() fails with 400, or the three form
\* values are read.
ParseForm(i) ==
    /\ reqs[i].pc = "switch" /\ reqs[i].method = "POST"
    /\ \/ Respond(i, "StatusBadRequest", "")
       \/ \E n \in FormNames, e \in FormEmails, p \in FormPayloads :
            reqs' = [reqs EXCEPT ![i].pc = "open", ![i].name = n, ![i].email = e,
                                 ![i].payload = p]
    /\ UNCHANGED << file, fileExists, pipevars, cdvars >>

\* os.OpenFile with O_APPEND|O_CREATE|O_WRONLY: it fails with 500, or the
\* file is there (made empty when it was not) and the line is formatted.
OpenFile(i) ==
    /\ reqs[i].pc = "open"
    /\ \/ /\ Respond(i, "StatusInternalServerError", "")
          /\ UNCHANGED << file, fileExists >>
       \/ /\ fileExists' = TRUE
          /\ UNCHANGED file
          /\ \E ts \in Timestamps :
               reqs' = [reqs EXCEPT ![i].pc = "write",
                            ![i].line = Sprintf(ts, reqs[i].name, reqs[i].email,
                                                reqs[i].payload)]
    /\ UNCHANGED << pipevars, cdvars >>

\* f.WriteString(line) on the O_APPEND descriptor: the bytes written go to the
\* end of the file in one piece. It returns (n, err): with err nil the whole
\* line was written and the request is redirected to /form; with an error n
\* bytes of the line were (n is dropped by the code) and the answer is 500.
WriteString(i) ==
    /\ reqs[i].pc = "write"
    /\ \/ /\ file' = file \o reqs[i].line
          /\ Respond(i, "StatusSeeOther", "/form")
       \/ /\ \E n \in { 0, Len(reqs[i].line) \div 2 } :
                file' = file \o SubSeq(reqs[i].line, 1, n)
          /\ Respond(i, "StatusInternalServerError", "")
    /\ UNCHANGED << fileExists, pipevars, cdvars >>

NextWeb ==
    \E i \in 1..MaxRequests :
        \/ Receive(i)
        \/ ServeForm(i)
        \/ MethodNotAllowed(i)
        \/ ParseForm(i)
        \/ OpenFile(i)
        \/ WriteString(i)

SpecWeb == InitWeb /\ [][NextWeb]_vars

\* Go's scheduler runs every goroutine that can run, the runtime clock goes on,
\* and a channel operation that stays possible is made.
Fairness ==
    /\ WF_vars(ClockAdvance)
    /\ WF_vars(\E w \in WorkerStates : WorkerRecv(w))
    /\ WF_vars(DispatcherClose)
    /\ WF_vars(\E w \in WorkerStates : WorkerExit(w))
    /\ WF_vars(\E w \in WorkerStates : WorkerTick(w))
    /\ WF_vars(\E w \in WorkerStates : WorkerCheck(w))
    /\ WF_vars(\E w \in WorkerStates : WorkerSend(w))
    /\ WF_vars(CollectorAppend)
    /\ WF_vars(CollectorBar)
    /\ WF_vars(CollectorExit)
    /\ WF_vars(MainWait)
    /\ WF_vars(MainClose)
    /\ WF_vars(MainDone)
    /\ WF_vars(MainSort)
    /\ WF_vars(MainEmit)

FairSpec == Init /\ [][Next]_vars /\ Fairness

\* ------------------------------------------------------------------ properties
Count(s, x) == Cardinality({ i \in 1..Len(s) : s[i] = x })
DomainsOf(s) == [i \in 1..Len(s) |-> s[i].Domain]
AllExited == NumWorkers({"exited"}) = BagCardinality(workers)

\* s <= t byte-wise: after a common prefix s ends, or s has the smaller byte.
StringLeq(s, t) ==
    \E k \in 0..Min(Len(s), Len(t)) :
        /\ SubSeq(s, 1, k) = SubSeq(t, 1, k)
        /\ \/ k = Len(s)
           \/ k < Len(t) /\ Ord(s[k + 1]) < Ord(t[k + 1])

\* C1: with at least one worker, the list handed to the encoder has exactly
\* one outcome per input position: its length is the number of input domains
\* and every domain name occurs in it as often as in the input.
C1_OneOutcomePerInput ==
    (mpc = "returned" /\ concurrency >= 1) =>
        /\ Len(out) = total
        /\ \A d \in DomainNames : Count(DomainsOf(out), d) = Count(domains, d)

C1_Witness ==
    /\ mpc = "returned" /\ concurrency >= 2 /\ total >= 2
    /\ domains[1] = domains[2]
    /\ Len(out) = total

\* C2: the list handed to the encoder is ascending by Domain under byte-wise
\* comparison, whatever the order of arrival.
C2_SortedWhenEmitted ==
    /\ mpc = "emit" =>
           \A i \in 1..(Len(collected) - 1) :
               StringLeq(collected[i].Domain, collected[i + 1].Domain)
    /\ mpc = "returned" =>
           \A i \in 1..(Len(out) - 1) : StringLeq(out[i].Domain, out[i + 1].Domain)

C2_Witness ==
    /\ mpc = "returned" /\ Len(out) >= 2
    /\ DomainsOf(arrival) # DomainsOf(out)

\* C3: the domains taken by a worker and not yet delivered to the result
\* channel are never more than the worker count, and the dispatcher is never
\* more than that many domains ahead of the delivered results.
InFlight == NumWorkers({"tick", "check", "send"})
Delivered == Len(collected) + (IF cpc \in {"append"} THEN 1 ELSE 0)

C3_InFlightAtMostWorkers ==
    concurrency >= 1 =>
        /\ InFlight <= concurrency
        /\ (next - 1) - Delivered <= concurrency

C3_Witness ==
    /\ concurrency >= 1 /\ InFlight = concurrency
    /\ next <= total /\ dpc = "range"

\* C4: under fair scheduling a run with at least one worker ends: the work
\* queue is closed, every worker has left its loop, the result channel and
\* done are closed and main has sorted and emitted.
C4_Terminates ==
    (concurrency >= 1) =>
        <>( /\ jobsClosed /\ AllExited /\ resultsClosed /\ doneClosed
            /\ dpc = "exited" /\ cpc = "exited" /\ mpc = "returned" )

C4_Witness ==
    /\ concurrency >= 1 /\ rate > 0 /\ total >= 2
    /\ jobsClosed /\ AllExited /\ resultsClosed /\ doneClosed
    /\ mpc = "returned"

\* C5: every input position is held by at most one worker at a time, is passed
\* to checkDomain at most once, and exactly once by the time main returns, so
\* the calls of a run number exactly the input domains.
Started == LET RECURSIVE Sum(_)
               Sum(i) == IF i = 0 THEN 0 ELSE checked[i] + Sum(i - 1)
           IN  Sum(Len(checked))
Holding(i) == BagCardinality([w \in { x \in WorkerStates : x.pos = i } |-> workers[w]])

C5_CheckedExactlyOnce ==
    /\ \A i \in 1..total : checked[i] <= 1 /\ Holding(i) <= 1
    /\ Started <= total
    /\ (mpc = "returned" /\ concurrency >= 1) =>
           /\ \A i \in 1..total : checked[i] = 1
           /\ Started = total

C5_Witness ==
    /\ mpc = "returned" /\ concurrency >= 2 /\ total >= 2
    /\ domains[1] = domains[2]
    /\ Started = total

\* C6: with a rate configured the calls of checkDomain started never exceed
\* the ticks fired since the ticker was made, so a finished run of M domains
\* has seen at least M - 1 intervals (ticksFired stops counting at MaxTicks,
\* where it says nothing more).
C6_StartsWithinTicks ==
    (rate > 0 /\ ticksFired < MaxTicks) =>
        /\ Started <= ticksFired
        /\ (mpc = "returned" /\ concurrency >= 1) => ticksFired >= total - 1

C6_Witness ==
    /\ rate > 0 /\ ticksFired < MaxTicks
    /\ mpc = "returned" /\ total >= 2
    /\ Started = total /\ Started = ticksFired

\* C7: no tick is saved up: every admission comes at least one full interval
\* after the admission before it.
C7_NoSavedTick ==
    [][ (\E w \in WorkerStates : WorkerTick(w)) => sinceAdmit >= TickUnits ]_vars

\* C8: a call with smtpCheck false returns SMTPReach false, LatencyMs 0 and an
\* empty Error, and has dialled nothing.
C8_NoProbeWithoutSmtp ==
    (cdpc = "return" /\ ~smtp) =>
        /\ res.SMTPReach = FALSE /\ res.LatencyMs = 0 /\ res.Error = EmptyString
        /\ dialed = << >> /\ conn = "none" /\ wire = << >>

C8_Witness ==
    cdpc = "return" /\ ~smtp /\ res.HasMX /\ res.HasSPF /\ ~res.HasDMARC

\* C9: when every dial of a probing call fails, each target was dialled once
\* in list order, SMTPReach is false and Error is the text of the failure of
\* the last target dialled.
AddrsOf(ts) == [i \in 1..Len(ts) |-> JoinHostPort(ts[i], SmtpPort)]
NoneConnected == \A i \in 1..Len(dialed) : dialed[i].got # DialOK

C9_AllFailLastError ==
    (cdpc = "return" /\ smtp /\ NoneConnected) =>
        /\ [i \in 1..Len(dialed) |-> dialed[i].addr] = AddrsOf(targets)
        /\ res.SMTPReach = FALSE
        /\ res.Error = ErrorText(DialError(dialed[Len(dialed)].addr, dialed[Len(dialed)].got))

C9_Witness ==
    /\ cdpc = "return" /\ smtp /\ NoneConnected
    /\ Len(dialed) >= 2 /\ dialed[1].got # dialed[2].got

\* C10: when a dial of a probing call connects, the targets were dialled in
\* list order up to the first that connects and none after it, SMTPReach is
\* true and Error is empty.
C10_FirstReachableWins ==
    (smtp /\ ~NoneConnected) =>
        /\ Len(dialed) <= Len(targets)
        /\ [i \in 1..Len(dialed) |-> dialed[i].addr] = SubSeq(AddrsOf(targets), 1, Len(dialed))
        /\ \A i \in 1..Len(dialed) : (dialed[i].got = DialOK) <=> (i = Len(dialed))
        /\ cdpc = "return" => res.SMTPReach = TRUE /\ res.Error = EmptyString

C10_Witness ==
    /\ cdpc = "return" /\ smtp /\ Len(targets) >= 2
    /\ Len(dialed) = 2 /\ dialed[1].got # DialOK /\ dialed[2].got = DialOK
    /\ res.Error = EmptyString

\* C11: Error holds text only in the result of a probing call whose probe
\* reached nothing, and then it is the text of a failed dial: a result with
\* SMTPReach true has an empty Error and no lookup failure is ever put there.
C11_ErrorOnlyFromFailedProbe ==
    res.Error # EmptyString =>
        /\ smtp /\ res.SMTPReach = FALSE
        /\ \E i \in 1..Len(dialed) :
               /\ dialed[i].got # DialOK
               /\ res.Error = ErrorText(DialError(dialed[i].addr, dialed[i].got))

C11_Witness ==
    /\ cdpc = "return" /\ smtp /\ res.Error # EmptyString
    /\ ~res.HasMX /\ ~res.HasSPF /\ ~res.HasDMARC

\* C12: HasMX is true exactly when MXHosts is not empty. A failed or empty MX
\* answer leaves HasMX false and MXHosts empty; an answer of n >= 1 records
\* gives n hosts in the order of the answer, each without one trailing dot;
\* no later step of the call changes either field.
WithoutOneDot(h) ==
    IF Len(h) > 0 /\ h[Len(h)] = "." THEN [i \in 1..(Len(h) - 1) |-> h[i]] ELSE h

C12_HasMXIffHosts ==
    [][ /\ res'.HasMX <=> Len(res'.MXHosts) > 0
        /\ IF cdpc = "mx"
           THEN IF ans'.err \/ Len(ans'.recs) = 0
                THEN res'.HasMX = FALSE /\ res'.MXHosts = << >>
                ELSE /\ Len(res'.MXHosts) = Len(ans'.recs)
                     /\ \A i \in 1..Len(ans'.recs) :
                            res'.MXHosts[i] = WithoutOneDot(ans'.recs[i])
           ELSE res'.HasMX = res.HasMX /\ res'.MXHosts = res.MXHosts ]_vars

C12_Witness ==
    /\ cdpc = "return" /\ res.HasMX
    /\ res.MXHosts = << <<"n">>, <<"m">> >>
    /\ ~res.HasSPF /\ res.HasDMARC

\* C13: right after each TXT lookup the flag is true exactly when the answer
\* is error-free and one of its records starts with the prefix ("v=spf1" on
\* the domain, "v=DMARC1" on "_dmarc." + domain), the stored record is the
\* first such record in full, and otherwise flag and record are as in the
\* zero result; the DMARC fields are fixed by the DMARC answer alone and the
\* DMARC lookup leaves the SPF fields alone.
StartsWith(s, p) ==
    Len(p) <= Len(s) /\ \A j \in 1..Len(p) : s[j] = p[j]
Matches(a, p) == { i \in 1..Len(a.recs) : ~a.err /\ StartsWith(a.recs[i], p) }
ScanGives(a, p, flag, record) ==
    /\ flag <=> Matches(a, p) # {}
    /\ IF Matches(a, p) # {}
       THEN \E i \in Matches(a, p) :
                /\ \A j \in Matches(a, p) : i <= j
                /\ record = a.recs[i]
       ELSE record = EmptyString

C13_TXTScans ==
    [][ /\ cdpc = "spf" =>
            /\ asked' = domain
            /\ ScanGives(ans', <<"v", "=", "s", "p", "f", "1">>, res'.HasSPF, res'.SPF)
        /\ cdpc = "dmarc" =>
            /\ asked' = <<"_", "d", "m", "a", "r", "c", ".">> \o domain
            /\ ScanGives(ans', <<"v", "=", "D", "M", "A", "R", "C", "1">>,
                         res'.HasDMARC, res'.DMARC)
            /\ res'.HasSPF = res.HasSPF /\ res'.SPF = res.SPF ]_vars

C13_Witness ==
    /\ cdpc \in {"dial", "return"} /\ dialed = << >>
    /\ Len(ans.recs) = 2
    /\ StartsWith(ans.recs[1], DmarcPrefix) /\ StartsWith(ans.recs[2], DmarcPrefix)
    /\ ans.recs[1] # ans.recs[2]
    /\ res.DMARC = ans.recs[1] /\ res.HasSPF /\ Len(res.SPF) > Len(SpfPrefix)

IsContinuation(line) == line # ReadErr /\ Len(line) >= 4 /\ line[4] = "-"

C18_ConnectMeansReachable ==
    /\ conn = "open" =>
           /\ cdpc \in {"greet", "ehlo", "quit"}
           /\ ENABLED (Greet \/ ReadEhlo \/ Quit)
    /\ ~NoneConnected => cdpc \in {"greet", "ehlo", "quit", "after", "return"}
    /\ (~NoneConnected /\ cdpc \in {"after", "return"}) =>
           /\ res.SMTPReach = TRUE /\ conn = "closed"
           /\ wire = << "EHLO", "QUIT" >>
    /\ (cdpc = "ehlo" /\ nread > 0) => IsContinuation(lastRead)
    /\ (~NoneConnected /\ cdpc \in {"quit", "after", "return"}) =>
           /\ nread >= 1
           /\ lastRead \in ReadOutcomes /\ ~IsContinuation(lastRead)

C18_Witness ==
    /\ cdpc = "return" /\ res.SMTPReach /\ conn = "closed"
    /\ greeting = ReadErr /\ lastRead = ReadErr /\ nread = 2

\* C14: nothing is sorted or handed to the encoder before collection is
\* complete: once main is at the sort or beyond, every worker has exited, the
\* result channel and done are closed and the collector has exited, having
\* (with at least one worker) appended one outcome per input domain; the
\* progress counter follows the appends one by one and is the number of
\* domains by then.
C14_EmitAfterCollection ==
    /\ mpc \in {"sort", "emit", "returned"} =>
           /\ AllExited /\ wg = 0
           /\ resultsClosed /\ doneClosed /\ cpc = "exited"
           /\ concurrency >= 1 => Len(collected) = total /\ bar = total
    /\ mpc \in {"wait", "close", "done"} => arrival = << >>
    /\ mpc # "returned" => out = << >>
    /\ bar = Len(collected) - (IF cpc = "bar" THEN 1 ELSE 0)

C14_Witness ==
    /\ mpc = "emit" /\ concurrency >= 2 /\ total >= 2
    /\ bar = total /\ Len(collected) = total /\ out = << >>

\* C15: a worker that holds a finished outcome is never kept waiting while
\* the collector is appending an earlier outcome or advancing the progress
\* indicator.
C15_CollectorNeverDelaysWorker ==
    ~( /\ NumWorkers({"send"}) > 0
       /\ cpc \in {"append", "bar"} )

\* C19: the work queue is closed only by the dispatcher as its last step,
\* after the last domain was handed over, and the result channel only by main
\* after wg.Wait(), when every worker has returned; neither close can be
\* repeated, and when the result channel is closed no worker is at its send
\* or holds a domain or an outcome.
C19_ShutdownSafe ==
    /\ jobsClosed => dpc = "exited" /\ next = total + 1
    /\ ~jobsClosed => ~ENABLED (\E w \in WorkerStates : WorkerExit(w))
    /\ resultsClosed =>
           /\ mpc \in {"done", "sort", "emit", "returned"}
           /\ AllExited /\ wg = 0
           /\ NumWorkers({"tick", "check", "send"}) = 0
           /\ \A w \in WorkerStates : w.r = NoResult /\ w.d = EmptyString
    /\ dpc = "exited" => ~ENABLED DispatcherClose
    /\ mpc \in {"done", "sort", "emit", "returned"} => ~ENABLED MainClose

C19_Witness ==
    /\ resultsClosed /\ jobsClosed /\ concurrency >= 2 /\ total >= 2
    /\ AllExited /\ Len(collected) = total /\ mpc = "done"

\* C20: with a worker count of zero or less no worker exists, the wait
\* counter is zero from the start, so main can always take its next step up
\* to its return, nothing is ever checked, collected or emitted, and the
\* dispatcher never gets past its first push nor closes the work queue.
C20_NoWorkersNoOutcomes ==
    concurrency <= 0 =>
        /\ workers = EmptyBag /\ wg = 0
        /\ Started = 0 /\ collected = << >> /\ bar = 0 /\ out = << >>
        /\ dpc = "range" /\ next = 1 /\ ~jobsClosed
        /\ ~ENABLED ((\E w \in WorkerStates : WorkerRecv(w)) \/ DispatcherClose)
        /\ mpc # "returned" =>
               ENABLED (MainWait \/ MainClose \/ CollectorExit \/ MainDone
                            \/ MainSort \/ MainEmit)

C20_Witness ==
    /\ concurrency <= 0 /\ total >= 1
    /\ mpc = "returned" /\ resultsClosed /\ doneClosed /\ out = << >>
    /\ dpc = "range" /\ next = 1

\* C16: submissions.txt changes only in the step in which a POST to /form,
\* its form parsed and the file opened, has its write succeed and is
\* redirected to /form, and every such step appends exactly one line, made of
\* a timestamp and the request's name, email and payload, after the unchanged
\* earlier content; no other step of any request changes the content.
Newlines(s) == Cardinality({ k \in 1..Len(s) : s[k] = "\n" })
IsOneLineOf(l, r) ==
    /\ Newlines(l) = 1 /\ l[Len(l)] = "\n"
    /\ \E ts \in Timestamps :
           l = ts \o <<"\t">> \o r.name \o <<"\t">> \o r.email \o <<"\t">>
                  \o r.payload \o <<"\n">>
Redirected(i) ==
    /\ reqs[i].method = "POST" /\ reqs[i].pc = "write"
    /\ reqs'[i].pc = "done" /\ reqs'[i].status = "StatusSeeOther"
    /\ reqs'[i].location = "/form"

C16_FileChangedOnlyByGoodPost ==
    [][ /\ file' # file => \E i \in 1..MaxRequests : Redirected(i)
        /\ \A i \in 1..MaxRequests :
               Redirected(i) =>
                   /\ Len(file') > Len(file)
                   /\ SubSeq(file', 1, Len(file)) = file
                   /\ IsOneLineOf(SubSeq(file', Len(file) + 1, Len(file')), reqs[i]) ]_vars
====
